---- MODULE Spec2Model ----
(***************************************************************************)
(* A model of monitor_als_arcteryx.py: one run of main() -- load the prior *)
(* snapshot, scrape the catalog, diff, aggregate one message per product,  *)
(* apply the baseline guard, save the snapshot atomically, notify.         *)
(*                                                                         *)
(* Product keys are small integers (their order stands for the string      *)
(* order sorted() uses).  Prices are integer cents; the float arithmetic   *)
(* of the price threshold is modelled exactly (see PriceChanged).          *)
(* A product record is a function from field names to values, so that a    *)
(* missing field (dict.get's default) is a field outside its DOMAIN; the   *)
(* fields no decision reads (sku, color, currency, url, last_seen, key)    *)
(* are left out.                                                           *)
(***************************************************************************)
EXTENDS Integers, Sequences, FiniteSets, TLC

VARIABLES
    fs,                  \* the directory: file name -> content
    env,                 \* os.environ: webhook, baseline_protect, keyword
    status,              \* "running", "done", "crashed" (uncaught exception), "killed"
    pc,                  \* position in main / scrape_all_products / jdump
    old,                 \* main: old = jload(SNAPSHOT_PATH)
    page_idx,            \* scrape_all_products locals
    empty_hits,
    seen_urls,
    links,               \* links of the current collection page still to visit
    attempt,             \* attempts made on the current href
    final_url,           \* page.url of the last attempt that loaded
    ok,                  \* the current href is settled: stored or filtered out
    title,               \* pdata.get("title", "") of the last page parsed
    result,              \* scrape_all_products: result (main: new)
    diffs,               \* main: diffs = compute_diff(old, new)
    reasons_map,         \* main locals
    increased_sizes_map,
    changed_keys,
    sent,                \* payloads handed to send_discord, in order
    posts,               \* HTTP POSTs made by send_discord
    logged               \* delivery failures printed by send_discord

vars == <<fs, env, status, pc, old, page_idx, empty_hits, seen_urls, links,
          attempt, final_url, ok, title, result, diffs, reasons_map,
          increased_sizes_map, changed_keys, sent, posts, logged>>

-----------------------------------------------------------------------------
(* Bounds of the model *)

MaxHrefs == 3        \* product URLs the site can list
MaxPages == 2        \* collection pages that can list links
MaxCatalog == 30     \* catalog size of the large-catalog inputs
MaxPathLen == 4      \* characters in the path of a URL given to stable_key_from_url

(* Program constants *)

GuardMinTotal == 20  \* total_all >= 20
GuardRatioNum == 7   \* ratio > 0.70
GuardRatioDen == 10
MaxAttempts == 2     \* for attempt in range(2)
EmptyHitsLimit == 2  \* if empty_hits >= 2: break

SNAPSHOT_PATH == "snapshot.json"

-----------------------------------------------------------------------------
(* Small helpers for Python dicts and sorted() *)

EmptyMap == <<>>

Get(d, f, default) == IF f \in DOMAIN d THEN d[f] ELSE default

Min(S) == CHOOSE x \in S : \A y \in S : x <= y

RECURSIVE Sorted(_)
Sorted(S) == IF S = {} THEN <<>> ELSE <<Min(S)>> \o Sorted(S \ {Min(S)})

Range(s) == {s[i] : i \in DOMAIN s}

RECURSIVE Pow2(_)
Pow2(n) == IF n = 0 THEN 1 ELSE 2 * Pow2(n - 1)

-----------------------------------------------------------------------------
(* Prices.  A price is [t |-> "num", c |-> cents] or NaN. *)

NaN == [t |-> "nan", c |-> 0]
Num(c) == [t |-> "num", c |-> c]
None == [t |-> "none", c |-> 0]

\* isinstance(p, (int, float)) and not math.isnan(p)
IsDefinedNumber(p) == p.t = "num"

(***************************************************************************)
(* float(c/100) for a price of c cents, c >= 1, is the double nearest to   *)
(* c/100: with 2^e <= c/100 < 2^(e+1) and s = 52 - e it is M / 2^s where M *)
(* is c*2^s/100 rounded to the nearest integer (ties to even).             *)
(* 100*M - c*2^s, the rounding error in units of 1/(100*2^s), lies in      *)
(* -50..50 and depends only on c*2^s modulo 200.                           *)
(***************************************************************************)

\* s - 52 = -e for c < 100: the least j with c * 2^j >= 100
RECURSIVE ShiftUp(_, _)
ShiftUp(c, j) == IF c * Pow2(j) >= 100 THEN j ELSE ShiftUp(c, j + 1)

\* e for c >= 100: the largest e with 100 * 2^e <= c
RECURSIVE ShiftDown(_, _)
ShiftDown(c, e) == IF 100 * Pow2(e + 1) > c THEN e ELSE ShiftDown(c, e + 1)

FloatScale(c) == IF c >= 100 THEN 52 - ShiftDown(c, 0) ELSE 52 + ShiftUp(c, 0)

RECURSIVE PowMod200(_)
PowMod200(n) == IF n = 0 THEN 1 ELSE (2 * PowMod200(n - 1)) % 200

RoundErr(c) ==
    LET t == ((c % 200) * PowMod200(FloatScale(c))) % 200
        low == t % 100
    IN  IF low < 50 THEN 0 - low
        ELSE IF low > 50 THEN 100 - low
        ELSE IF t = 50 THEN 0 - 50 ELSE 50

\* the scale of float(0.01), the literal of the threshold
ThresholdScale == FloatScale(1)

\* the rounding error of float(c/100) in units of 1/(100 * 2^ThresholdScale)
ScaledErr(c) == IF c = 0 THEN 0 ELSE RoundErr(c) * Pow2(ThresholdScale - FloatScale(c))

\* abs(op - np) >= 0.01 on doubles, op and np prices of a and b cents.
\* The subtraction of two doubles within a factor two of each other is exact.
AbsDiffAtLeastCent(a, b) ==
    LET hi == IF a >= b THEN a ELSE b
        lo == IF a >= b THEN b ELSE a
    IN  IF hi - lo >= 2 THEN TRUE
        ELSE IF hi = lo THEN FALSE
        ELSE ScaledErr(hi) - ScaledErr(lo) >= ScaledErr(1)

PriceChanged(op, np) ==
    /\ IsDefinedNumber(op)
    /\ IsDefinedNumber(np)
    /\ AbsDiffAtLeastCent(op.c, np.c)

-----------------------------------------------------------------------------
(* Product records *)

Rec(name, price, sizes) ==
    [title |-> name, price |-> price, sizes |-> sizes,
     \* parse_product_detail: any(qty > 0 for qty in sizes.values()) if sizes else False
     in_stock |-> \E z \in DOMAIN sizes : sizes[z] > 0]

\* the record scrape_all_products stores when no attempt yields a title
Placeholder ==
    [title |-> "", price |-> NaN, sizes |-> EmptyMap, in_stock |-> FALSE,
     note |-> "parse_failed"]

-----------------------------------------------------------------------------
(* compute_diff.  Each list holds keys in sorted order; the o and n of the  *)
(* tuples (k, o, n) are old[k] and new[k] and are left out.                 *)

StockFlipped(o, n) == Get(o, "in_stock", FALSE) # Get(n, "in_stock", FALSE)

\* (not o.get("in_stock", False)) and n.get("in_stock", False)
RestockFires(o, n) == (~ Get(o, "in_stock", FALSE)) /\ Get(n, "in_stock", FALSE)

NotDecreased(o, n) ==
    LET osizes == Get(o, "sizes", EmptyMap)
        nsizes == Get(n, "sizes", EmptyMap)
    IN  [z \in {y \in DOMAIN nsizes : nsizes[y] >= Get(osizes, y, 0)} |-> nsizes[z]]

\* increased[size] = int(nqty) for every size of n with int(nqty) > int(oqty)
Increased(o, n) ==
    LET osizes == Get(o, "sizes", EmptyMap)
        nsizes == Get(n, "sizes", EmptyMap)
    IN  [z \in {y \in DOMAIN nsizes : nsizes[y] > Get(osizes, y, 0)} |-> nsizes[z]]

PriceFires(o, n) == PriceChanged(Get(o, "price", None), Get(n, "price", None))

compute_diff(o, n) ==
    LET both == DOMAIN n \cap DOMAIN o
    IN  [new_items |-> Sorted(DOMAIN n \ DOMAIN o),
         price_changes |-> Sorted({k \in both : PriceFires(o[k], n[k])}),
         restocks |-> Sorted({k \in both : RestockFires(o[k], n[k])}),
         stock_increases |-> Sorted({k \in both : DOMAIN Increased(o[k], n[k]) # {}})]

NoDiffs == compute_diff(EmptyMap, EmptyMap)

-----------------------------------------------------------------------------
(* main: aggregation of the reasons per key, and the baseline guard *)

SetDefaultOverwrite(m, k, label) ==
    [j \in DOMAIN m \cup {k} |-> IF j = k THEN <<label>> ELSE m[j]]

\* reasons_map.setdefault(k, []).append(label)
SetDefaultAppend(m, k, label) ==
    IF k \in DOMAIN m THEN [m EXCEPT ![k] = Append(@, label)]
    ELSE m @@ (k :> <<label>>)

\* for k, ... in ks: reasons_map.setdefault(k, []).append(label)
RECURSIVE AppendAll(_, _, _)
AppendAll(m, ks, label) ==
    IF ks = <<>> THEN m
    ELSE AppendAll(SetDefaultAppend(m, Head(ks), label), Tail(ks), label)

Aggregate(d) ==
    AppendAll(AppendAll(AppendAll(AppendAll(EmptyMap,
        d.new_items, "NewItem"),
        d.price_changes, "PriceChange"),
        d.restocks, "Restock"),
        d.stock_increases, "StockIncrease")

\* increased_sizes_map[k] = list(inc.keys())
IncreasedSizes(o, n, d) ==
    [k \in Range(d.stock_increases) |-> DOMAIN Increased(o[k], n[k])]

\* [r for r in reasons_map[k] if r != "NewItem"]
WithoutNew(rs) == SelectSeq(rs, LAMBDA r : r # "NewItem")

\* reasons_map.pop(k, None)
Pop(m, k) == [j \in DOMAIN m \ {k} |-> m[j]]

RECURSIVE StripNew(_, _)
StripNew(m, ks) ==
    IF ks = <<>> THEN m
    ELSE LET k == Head(ks)
             m1 == IF k \in DOMAIN m
                   THEN IF WithoutNew(m[k]) = <<>> THEN Pop(m, k)
                        ELSE [m EXCEPT ![k] = WithoutNew(@)]
                   ELSE m
         IN  StripNew(m1, Tail(ks))

GuardTripsAtRatio(total_new, total_all) ==
    /\ total_new * GuardRatioDen >= GuardRatioNum * total_all
    /\ total_all >= GuardMinTotal

\* ratio > 0.70 and total_all >= 20, ratio = total_new / total_all.
\* For these magnitudes the float comparison agrees with the exact one.
GuardTrips(total_new, total_all) ==
    /\ total_new * GuardRatioDen > GuardRatioNum * total_all
    /\ total_all >= GuardMinTotal

BaselineProtect(m, d, n, baseline_protect) ==
    LET total_new == Len(d.new_items)
        total_all == IF n # EmptyMap THEN Cardinality(DOMAIN n) ELSE 1
    IN  IF baseline_protect /\ DOMAIN m # {} /\ GuardTrips(total_new, total_all)
        THEN StripNew(m, d.new_items)
        ELSE m

-----------------------------------------------------------------------------
(* Files.  A file content is [kind, data]: "missing" (no such file),        *)
(* "garbage" (text that is not JSON), "notmap" (JSON that is not an         *)
(* object), "doc" (the JSON text of the map data), "empty" and "partial"    *)
(* (nothing, or a proper prefix, of the JSON text of data).                 *)

Missing == [kind |-> "missing", data |-> EmptyMap]
Garbage == [kind |-> "garbage", data |-> EmptyMap]
NotMap == [kind |-> "notmap", data |-> EmptyMap]
Empty(obj) == [kind |-> "empty", data |-> obj]
Partial(obj) == [kind |-> "partial", data |-> obj]

\* json.dump(obj, tmp, ensure_ascii=False, indent=2), flushed
json_dump(obj) == [kind |-> "doc", data |-> obj]

\* json.loads(path.read_text()) raises unless the text is a whole JSON document
json_loads_raises(f) == f.kind \notin {"doc", "notmap"}

jload_noexcept(f) ==
    IF f.kind = "missing" THEN [raised |-> FALSE, value |-> EmptyMap]
    ELSE IF f.kind = "doc" THEN [raised |-> FALSE, value |-> f.data]
    ELSE [raised |-> TRUE, value |-> EmptyMap]

\* jload: {} when the file is missing; {} when json.loads, len(data) or
\* data.keys() raises; else the parsed map
jload(f) ==
    IF f.kind = "missing" THEN [raised |-> FALSE, value |-> EmptyMap]
    ELSE IF json_loads_raises(f) \/ f.kind = "notmap"
         THEN [raised |-> FALSE, value |-> EmptyMap]
         ELSE [raised |-> FALSE, value |-> f.data]

TMP == "tmp"
FileNames == {SNAPSHOT_PATH, TMP}

OpenDestination(path) == path

\* NamedTemporaryFile('w', delete=False, dir=str(path.parent)): a fresh file
\* next to path
NamedTemporaryFile(path) == TMP

\* shutil.move(tmp_name, path): os.rename, then os.unlink(tmp_name) in finally
Move(f, tmp_name, path) ==
    IF tmp_name = path THEN [f EXCEPT ![path] = Missing]
    ELSE [f EXCEPT ![path] = f[tmp_name], ![tmp_name] = Missing]

-----------------------------------------------------------------------------
(* URLs are strings, written as sequences of characters.  Host stands for   *)
(* the scheme and authority "https://www.als.com" of an absolute URL.       *)

Host == "https://www.als.com"

Max(S) == CHOOSE x \in S : \A y \in S : y <= x

\* position of the first c in s, 0 when there is none
Find(s, c) ==
    LET at == {i \in 1 .. Len(s) : s[i] = c}
    IN  IF at = {} THEN 0 ELSE Min(at)

\* str.lower()
Lower(c) == IF c = "P" THEN "p" ELSE IF c = "A" THEN "a" ELSE c

lower(s) == [i \in 1 .. Len(s) |-> Lower(s[i])]

\* urlparse(u) of an absolute URL: the fragment starts at the first "#",
\* the query at the first "?" before it, the path is what is left
urlparse(u) ==
    LET rest == Tail(u)
        h == Find(rest, "#")
        nofrag == IF h = 0 THEN rest ELSE SubSeq(rest, 1, h - 1)
        q == Find(nofrag, "?")
    IN  [path |-> IF q = 0 THEN nofrag ELSE SubSeq(nofrag, 1, q - 1),
         query |-> IF q = 0 THEN <<>> ELSE SubSeq(nofrag, q + 1, Len(nofrag)),
         fragment |-> IF h = 0 THEN <<>> ELSE SubSeq(rest, h + 1, Len(rest))]

\* r"/([^/]+)/p(?:$|/|\?|#)" matches at i with group(1) = path[i+1 .. j]
MatchAt(path, i, j) ==
    /\ path[i] = "/"
    /\ i + 1 <= j
    /\ j + 2 <= Len(path)
    /\ \A k \in i + 1 .. j : path[k] # "/"
    /\ path[j + 1] = "/"
    /\ path[j + 2] = "p"
    /\ \/ j + 2 = Len(path)
       \/ path[j + 3] \in {"/", "?", "#"}

\* re.search: the leftmost match, [found |-> FALSE] for None
re_search(path) ==
    LET starts == {i \in 1 .. Len(path) :
                      \E j \in 1 .. Len(path) : MatchAt(path, i, j)}
    IN  IF starts = {} THEN [found |-> FALSE, group |-> <<>>]
        ELSE LET i == Min(starts)
                 j == CHOOSE e \in 1 .. Len(path) : MatchAt(path, i, e)
             IN  [found |-> TRUE, group |-> SubSeq(path, i + 1, j)]

\* s.strip("/")
strip(s) ==
    LET keep == {i \in 1 .. Len(s) : s[i] # "/"}
    IN  IF keep = {} THEN <<>> ELSE SubSeq(s, Min(keep), Max(keep))

\* s.split("/")[-1]
last_of_split(s) ==
    LET cut == {i \in 1 .. Len(s) : s[i] = "/"}
    IN  IF cut = {} THEN s ELSE SubSeq(s, Max(cut) + 1, Len(s))

\* urlparse raises on none of these URLs, the except branch is never taken
slug_from_pdp_url(u) ==
    LET path == lower(urlparse(u).path)
        m == re_search(path)
    IN  IF m.found THEN m.group ELSE last_of_split(strip(path))

\* slug or (u or "").lower()
stable_key_from_url(u) ==
    LET slug == slug_from_pdp_url(u)
    IN  IF Len(slug) > 0 THEN slug ELSE lower(u)

-----------------------------------------------------------------------------
(* The catalog of the run.  Href 2k-1 is the detail page of product k, href *)
(* 2k the same path with a query string; the slug of product k is k times   *)
(* the letter a, and the state map of the run is keyed by k.                *)

Hrefs == 1 .. MaxHrefs

SlugOf(k) == [i \in 1 .. k |-> "a"]

UrlOf(href) ==
    <<Host, "/">> \o SlugOf((href + 1) \div 2) \o <<"/", "p">>
        \o (IF href % 2 = 0 THEN <<"?", "q">> ELSE <<>>)

KeyOf(href) == Len(stable_key_from_url(UrlOf(href)))

\* the URLs page.url can show after page.goto(href)
FinalUrls(href) == {href, 2 * KeyOf(href) - 1}

\* extract_collection_links: the hrefs of a page, without duplicates
LinkLists == {Sorted(S) : S \in SUBSET Hrefs}

\* what parse_product_detail can return for a page with a title
ScrapeRecords ==
    { Rec("t", Num(10000), "S" :> 0),
      Rec("t", Num(9000), "S" :> 1),
      Rec("t", NaN, "S" :> 2) }

-----------------------------------------------------------------------------
(* Initial states: main() is about to run.  The snapshot file is missing,   *)
(* unreadable, or what an earlier run saved.                                 *)

PriorRecords == ScrapeRecords \cup {Placeholder}

MapsOver(K, R) == UNION {[D -> R] : D \in SUBSET K}

\* snapshots an earlier run can have saved
PriorMaps ==
    { EmptyMap,
      1 :> Rec("t", Num(10000), "S" :> 0),
      2 :> Rec("t", Num(9000), "S" :> 1),
      (1 :> Rec("t", Num(10000), "S" :> 0)) @@ (2 :> Placeholder) }

InitialFiles == {Missing, Garbage, NotMap} \cup {json_dump(m) : m \in PriorMaps}

Envs == [webhook : BOOLEAN, baseline_protect : BOOLEAN, keyword : BOOLEAN]

Locals ==
    /\ page_idx = 1
    /\ empty_hits = 0
    /\ seen_urls = {}
    /\ links = <<>>
    /\ attempt = 0
    /\ final_url = 0
    /\ ok = FALSE
    /\ title = ""
    /\ diffs = NoDiffs
    /\ reasons_map = EmptyMap
    /\ increased_sizes_map = EmptyMap
    /\ changed_keys = <<>>
    /\ sent = <<>>
    /\ posts = 0
    /\ logged = 0

Init ==
    /\ fs \in {(SNAPSHOT_PATH :> f) @@ (TMP :> Missing) : f \in InitialFiles}
    /\ env \in {e \in Envs : e.baseline_protect}
    /\ status = "running"
    /\ pc = "load"
    /\ old = EmptyMap
    /\ result = EmptyMap
    /\ Locals

Running(at) == status = "running" /\ pc = at

-----------------------------------------------------------------------------
(* main: old = jload(SNAPSHOT_PATH), then scrape_all_products starts *)

Load ==
    /\ Running("load")
    /\ LET r == jload(fs[SNAPSHOT_PATH])
       IN  IF r.raised
           THEN /\ status' = "crashed"
                /\ UNCHANGED <<pc, old>>
           ELSE /\ old' = r.value
                /\ pc' = "collection"
                /\ UNCHANGED status
    /\ UNCHANGED <<fs, env, page_idx, empty_hits, seen_urls, links, attempt,
                   final_url, result, diffs, reasons_map, increased_sizes_map,
                   changed_keys, sent, posts, logged, ok, title>>

\* empty_hits += 1; if empty_hits >= 2: break; page_idx += 1; continue
EmptyHit ==
    /\ empty_hits' = empty_hits + 1
    /\ IF empty_hits + 1 >= EmptyHitsLimit
       THEN pc' = "diff" /\ UNCHANGED page_idx
       ELSE pc' = "collection" /\ page_idx' = page_idx + 1

\* page.goto(url); page.wait_for_load_state(): only PWTimeout is caught
GotoCollection ==
    /\ Running("collection")
    /\ \E outcome \in {"loaded", "timeout", "error"} :
          CASE outcome = "loaded" ->
                  /\ pc' = "extract"
                  /\ UNCHANGED <<status, page_idx, empty_hits>>
            [] outcome = "timeout" ->
                  /\ EmptyHit
                  /\ UNCHANGED status
            [] outcome = "error" ->
                  /\ status' = "crashed"
                  /\ UNCHANGED <<pc, page_idx, empty_hits>>
    /\ UNCHANGED <<fs, env, old, seen_urls, links, attempt, final_url, result,
                   diffs, reasons_map, increased_sizes_map, changed_keys,
                   sent, posts, logged, ok, title>>

\* links = extract_collection_links(page), outside any try
ExtractLinks ==
    /\ Running("extract")
    /\ \/ /\ status' = "crashed"
          /\ UNCHANGED <<pc, page_idx, empty_hits, links>>
       \/ \E ls \in LinkLists :
             /\ ls # <<>> => page_idx <= MaxPages
             /\ IF ls = <<>>
                THEN EmptyHit /\ UNCHANGED links
                ELSE /\ empty_hits' = 0
                     /\ links' = ls
                     /\ pc' = "links"
                     /\ UNCHANGED page_idx
             /\ UNCHANGED status
    /\ UNCHANGED <<fs, env, old, seen_urls, attempt, final_url, result,
                   diffs, reasons_map, increased_sizes_map, changed_keys,
                   sent, posts, logged, ok, title>>

\* for href in links: if href in seen_urls: continue; seen_urls.add(href);
\* after the last link: page_idx += 1
NextLink ==
    /\ Running("links")
    /\ IF links = <<>>
       THEN /\ page_idx' = page_idx + 1
            /\ pc' = "collection"
            /\ UNCHANGED <<links, seen_urls, attempt, final_url, ok>>
       ELSE IF Head(links) \in seen_urls
       THEN /\ links' = Tail(links)
            /\ UNCHANGED <<pc, page_idx, seen_urls, attempt, final_url, ok>>
       ELSE /\ seen_urls' = seen_urls \cup {Head(links)}
            /\ attempt' = 0
            /\ final_url' = Head(links)
            /\ ok' = FALSE
            /\ pc' = "detail"
            /\ UNCHANGED <<links, page_idx>>
    /\ UNCHANGED <<fs, env, status, old, empty_hits, result, diffs,
                   reasons_map, increased_sizes_map, changed_keys, sent,
                   posts, logged, title>>

\* leaving the retry loop of one href without ok: the failure placeholder
\* goes under the key of final_url
AfterFailedTry(url) ==
    IF attempt + 1 >= MaxAttempts
    THEN /\ result' = [k \in DOMAIN result \cup {KeyOf(url)} |->
                          IF k = KeyOf(url)
                          THEN Placeholder ELSE result[k]]
         /\ links' = Tail(links)
         /\ pc' = "links"
    ELSE UNCHANGED <<result, links, pc>>

\* what parse_product_detail can return as title on a page it cannot use:
\* none, or (under a keyword filter) a title without the keyword
NoTitle == ""
OtherTitle == "x"

\* one pass of "for attempt in range(2)" on href = Head(links)
TryDetail ==
    /\ Running("detail")
    /\ attempt' = attempt + 1
    /\ \/ \* page.goto / wait_for_load_state raises: final_url keeps its value
          /\ AfterFailedTry(final_url)
          /\ UNCHANGED <<final_url, ok, title>>
       \/ \E url \in FinalUrls(Head(links)) :
             /\ final_url' = url
             /\ \/ \* keyword and keyword not in (title or ""): ok, nothing
                   \* stored, with or without a title
                   /\ env.keyword
                   /\ title' \in {NoTitle, OtherTitle}
                   /\ ok' = TRUE
                   /\ links' = Tail(links)
                   /\ pc' = "links"
                   /\ UNCHANGED result
                \/ \* a title: result[key] = pdata
                   \E pdata \in ScrapeRecords :
                      LET key == KeyOf(url)
                      IN  /\ result' = [k \in DOMAIN result \cup {key} |->
                                          IF k = key THEN pdata
                                          ELSE result[k]]
                          /\ title' = pdata.title
                          /\ ok' = TRUE
                          /\ links' = Tail(links)
                          /\ pc' = "links"
                \/ \* no title (and no keyword): on to the next attempt
                   /\ ~ env.keyword
                   /\ title' = NoTitle
                   /\ UNCHANGED ok
                   /\ AfterFailedTry(url)
    /\ UNCHANGED <<fs, env, status, old, page_idx, empty_hits, seen_urls,
                   diffs, reasons_map, increased_sizes_map, changed_keys,
                   sent, posts, logged>>

-----------------------------------------------------------------------------
(* main after the scrape: diff, aggregation, baseline guard *)

Process ==
    /\ Running("diff")
    /\ LET d == compute_diff(old, result)
       IN  /\ diffs' = d
           /\ increased_sizes_map' = IncreasedSizes(old, result, d)
           /\ reasons_map' = BaselineProtect(Aggregate(d), d, result,
                                             env.baseline_protect)
    /\ changed_keys' = Sorted(DOMAIN reasons_map')
    /\ pc' = "jdump"
    /\ UNCHANGED <<fs, env, status, old, page_idx, empty_hits, seen_urls,
                   links, attempt, final_url, result, sent, posts, logged, ok, title>>

-----------------------------------------------------------------------------
(* jdump(new, SNAPSHOT_PATH), one action per effect on the directory *)

tmp_name == NamedTemporaryFile(SNAPSHOT_PATH)

MergedWithOld == [k \in DOMAIN result \cup DOMAIN old |->
                    IF k \in DOMAIN result THEN result[k] ELSE old[k]]

\* jdump(new, SNAPSHOT_PATH): the object saved is the scrape result alone
SavedObject == result

JdumpSteps == {"jdump", "jdump_write", "jdump_sync", "jdump_move"}

KeepMain ==
    UNCHANGED <<env, status, old, page_idx, empty_hits, seen_urls, links,
                attempt, final_url, result, diffs, reasons_map,
                increased_sizes_map, changed_keys, sent, posts, logged, ok, title>>

\* with NamedTemporaryFile(...) as tmp: the file is created empty
JdumpOpen ==
    /\ Running("jdump")
    /\ fs' = [fs EXCEPT ![tmp_name] = Empty(SavedObject)]
    /\ pc' = "jdump_write"
    /\ KeepMain

\* json.dump(obj, tmp): buffered, so none or some of the text is in the file
JdumpWrite ==
    /\ Running("jdump_write")
    /\ fs' \in {fs, [fs EXCEPT ![tmp_name] = Partial(SavedObject)]}
    /\ pc' = "jdump_sync"
    /\ KeepMain

\* tmp.flush(); os.fsync(tmp.fileno()); the with block closes the file
JdumpSync ==
    /\ Running("jdump_sync")
    /\ fs' = [fs EXCEPT ![tmp_name] = json_dump(SavedObject)]
    /\ pc' = "jdump_move"
    /\ KeepMain

JdumpMove ==
    /\ Running("jdump_move")
    /\ fs' = Move(fs, tmp_name, SNAPSHOT_PATH)
    /\ pc' = "notify"
    /\ KeepMain

\* the process dies inside jdump (kill, power loss, an I/O error)
Kill ==
    /\ status = "running"
    /\ pc \in JdumpSteps
    /\ status' = "killed"
    /\ UNCHANGED <<fs, env, pc, old, page_idx, empty_hits, seen_urls, links,
                   attempt, final_url, result, diffs, reasons_map,
                   increased_sizes_map, changed_keys, sent, posts, logged, ok, title>>

-----------------------------------------------------------------------------
(* The delivery loop: for k in changed_keys: send_discord(build_item_message) *)

build_item_message(k) ==
    [key |-> k,
     reasons |-> Get(reasons_map, k, <<>>),
     increased_sizes |-> Get(increased_sizes_map, k, {})]

PostOutcomes == {"ok", "http_error", "error"}

EscapesUnlessHttpError(outcome) == outcome = "error"

\* except urllib.error.HTTPError ... except Exception: nothing the POST
\* raises leaves send_discord
Escapes(outcome) == FALSE

\* send_discord: returns at once without a webhook; else one POST, whose
\* HTTPError or other exception is printed and swallowed
SendDiscord ==
    /\ Running("notify")
    /\ Len(sent) < Len(changed_keys)
    /\ sent' = Append(sent, build_item_message(changed_keys[Len(sent) + 1]))
    /\ IF env.webhook
       THEN \E outcome \in PostOutcomes :
               /\ posts' = posts + 1
               /\ logged' = IF outcome = "ok" \/ Escapes(outcome) THEN logged
                             ELSE logged + 1
               /\ status' = IF Escapes(outcome) THEN "crashed" ELSE status
       ELSE UNCHANGED <<posts, logged, status>>
    /\ UNCHANGED <<fs, env, pc, old, page_idx, empty_hits, seen_urls,
                   links, attempt, final_url, ok, title, result, diffs,
                   reasons_map, increased_sizes_map, changed_keys>>

\* return 0
Finish ==
    /\ Running("notify")
    /\ Len(sent) = Len(changed_keys)
    /\ status' = "done"
    /\ UNCHANGED <<fs, env, pc, old, page_idx, empty_hits, seen_urls, links,
                   attempt, final_url, result, diffs, reasons_map,
                   increased_sizes_map, changed_keys, sent, posts, logged, ok, title>>

-----------------------------------------------------------------------------

Next ==
    \/ Load
    \/ GotoCollection
    \/ ExtractLinks
    \/ NextLink
    \/ TryDetail
    \/ Process
    \/ JdumpOpen
    \/ JdumpWrite
    \/ JdumpSync
    \/ JdumpMove
    \/ Kill
    \/ SendDiscord
    \/ Finish

Spec == Init /\ [][Next]_vars

-----------------------------------------------------------------------------
(* The second half of main on its own: the states right after               *)
(* scrape_all_products returned, for prior and current snapshots drawn from *)
(* three families.                                                          *)

RichPrices == {NaN, Num(10000), Num(10001), Num(36000), Num(36001)}

RichSizes == {EmptyMap, "S" :> 0, "S" :> 1, "S" :> 2, ("S" :> 1) @@ ("M" :> 0)}

\* records of one product, some without a price or an in_stock field
RichRecords ==
    {Rec("t", p, z) : p \in RichPrices, z \in RichSizes}
        \cup {Placeholder, [title |-> "t", sizes |-> "S" :> 1]}

\* a catalog of n products against a snapshot of the products lo..MaxCatalog
LargeNew(n) == [k \in 1 .. n |-> Rec("t", Num(9000), "S" :> 1)]

LargeOld(lo) ==
    [k \in lo .. MaxCatalog |->
        IF k % 2 = 0 THEN Rec("t", Num(10000), "S" :> 0)
        ELSE Rec("t", Num(9000), "S" :> 1)]

PipelineInputs ==
    {<<o, n>> : o \in MapsOver({1}, RichRecords), n \in MapsOver({1}, RichRecords)}
        \cup {<<o, n>> : o \in MapsOver({1, 2}, PriorRecords),
                         n \in MapsOver({1, 2}, PriorRecords)}
        \cup {<<LargeOld(lo), LargeNew(n)>> : lo \in 1 .. MaxCatalog + 1,
                                              n \in 0 .. MaxCatalog}

Large(o, n) == \E k \in DOMAIN o \cup DOMAIN n : k > 2

InitPipeline ==
    /\ \E io \in PipelineInputs :
          /\ old = io[1]
          /\ result = io[2]
          /\ fs = (SNAPSHOT_PATH :> (IF io[1] = EmptyMap THEN Missing
                                     ELSE json_dump(io[1])))
                    @@ (TMP :> Missing)
          /\ env \in {e \in Envs : ~ e.keyword /\ (Large(io[1], io[2]) => ~ e.webhook)}
    /\ status = "running"
    /\ pc = "diff"
    /\ page_idx = 1
    /\ empty_hits = EmptyHitsLimit
    /\ seen_urls = {2 * k - 1 : k \in DOMAIN result}
    /\ links = <<>>
    /\ attempt = 0
    /\ final_url = 0
    /\ ok = FALSE
    /\ title = ""
    /\ diffs = NoDiffs
    /\ reasons_map = EmptyMap
    /\ increased_sizes_map = EmptyMap
    /\ changed_keys = <<>>
    /\ sent = <<>>
    /\ posts = 0
    /\ logged = 0

NextPipeline ==
    \/ Process
    \/ JdumpOpen
    \/ JdumpWrite
    \/ JdumpSync
    \/ JdumpMove
    \/ SendDiscord
    \/ Finish

SpecPipeline == InitPipeline /\ [][NextPipeline]_vars

-----------------------------------------------------------------------------
(* The key function on URL strings: two links with one path, told apart by  *)
(* query string or fragment, each failing both attempts.                    *)

PathChars == {"/", "a", "A", "p", "P"}

\* the path of an absolute URL is empty or starts with "/"
Paths ==
    {<<>>} \cup {s \in UNION {[1 .. n -> PathChars] : n \in 1 .. MaxPathLen} :
                    s[1] = "/"}

\* what can follow the path
Suffixes ==
    { <<>>,
      <<"?">>,
      <<"?", "q">>,
      <<"#", "f">>,
      <<"?", "q", "#", "f">>,
      <<"?", "/", "a", "/", "p">>,
      <<"#", "?", "q">> }

InitKey ==
    /\ \E path \in Paths : \E s1, s2 \in Suffixes :
          /\ s1 # s2
          /\ links = << <<Host>> \o path \o s1, <<Host>> \o path \o s2 >>
    /\ fs = (SNAPSHOT_PATH :> Missing) @@ (TMP :> Missing)
    /\ env \in {e \in Envs : e.baseline_protect /\ ~ e.keyword /\ ~ e.webhook}
    /\ status = "running"
    /\ pc = "failed_href"
    /\ old = EmptyMap
    /\ result = EmptyMap
    /\ page_idx = 1
    /\ empty_hits = 0
    /\ seen_urls = {}
    /\ attempt = 0
    /\ final_url = <<>>
    /\ ok = FALSE
    /\ title = ""
    /\ diffs = NoDiffs
    /\ reasons_map = EmptyMap
    /\ increased_sizes_map = EmptyMap
    /\ changed_keys = <<>>
    /\ sent = <<>>
    /\ posts = 0
    /\ logged = 0

\* one href of the loop whose two attempts both raise in page.goto:
\* seen_urls.add(href), final_url = href, and after the attempts
\* result[stable_key_from_url(final_url or href)] = the placeholder
FailedHref ==
    /\ Running("failed_href")
    /\ links # <<>>
    /\ Head(links) \notin seen_urls
    /\ LET href == Head(links)
           key == stable_key_from_url(href)
       IN  /\ seen_urls' = seen_urls \cup {href}
           /\ final_url' = href
           /\ result' = [k \in DOMAIN result \cup {key} |->
                            IF k = key THEN Placeholder ELSE result[k]]
    /\ attempt' = MaxAttempts
    /\ links' = Tail(links)
    /\ UNCHANGED <<fs, env, status, pc, old, page_idx, empty_hits, diffs,
                   reasons_map, increased_sizes_map, changed_keys, sent,
                   posts, logged, ok, title>>

NextKey == FailedHref

SpecKey == InitKey /\ [][NextKey]_vars

-----------------------------------------------------------------------------
(* Properties *)

AllKeys == DOMAIN old \cup DOMAIN result

\* main has computed diffs, reasons_map and changed_keys
Processed == pc \in JdumpSteps \cup {"notify"}

InList(k, ks) == \E i \in DOMAIN ks : ks[i] = k

ReasonsOf(k) == Range(Get(reasons_map, k, <<>>))

MessagesFor(k) == {i \in DOMAIN sent : sent[i].key = k}

\* the guard of this run, in the numbers of the specification
GuardActive ==
    /\ env.baseline_protect
    /\ Cardinality(DOMAIN result) >= 20
    /\ 10 * Cardinality(DOMAIN result \ DOMAIN old) > 7 * Cardinality(DOMAIN result)

\* the change kinds of key k that survive the guard
Surviving(k) ==
    {r \in {"NewItem"} : InList(k, diffs.new_items) /\ ~ GuardActive}
        \cup {r \in {"PriceChange"} : InList(k, diffs.price_changes)}
        \cup {r \in {"Restock"} : InList(k, diffs.restocks)}
        \cup {r \in {"StockIncrease"} : InList(k, diffs.stock_increases)}

(* C1: a key never gets two messages; when the run is done every key with  *)
(* a surviving reason has got exactly one message, which carries all its   *)
(* surviving reasons once each, and a key without one has got none.        *)
C1_OneMessagePerChangedKey ==
    /\ \A k \in AllKeys : Cardinality(MessagesFor(k)) <= 1
    /\ status = "done" =>
          \A k \in AllKeys :
             IF Surviving(k) = {} THEN MessagesFor(k) = {}
             ELSE /\ Cardinality(MessagesFor(k)) = 1
                  /\ \A i \in MessagesFor(k) :
                        /\ Range(sent[i].reasons) = Surviving(k)
                        /\ Len(sent[i].reasons) = Cardinality(Surviving(k))

C1_Witness ==
    /\ status = "done"
    /\ Len(sent) = 2
    /\ \E i \in DOMAIN sent : {"PriceChange", "Restock"} \subseteq Range(sent[i].reasons)
    /\ \E i \in DOMAIN sent : sent[i].reasons = <<"NewItem">>

C4_NoFatalCondition == status # "crashed"

C6_BaselineGuard ==
    Processed =>
       /\ \A k \in DOMAIN result \ DOMAIN old :
             ("NewItem" \in ReasonsOf(k)) <=> ~ GuardActive
       /\ \A k \in DOMAIN result \cap DOMAIN old :
             /\ ("PriceChange" \in ReasonsOf(k)) <=> InList(k, diffs.price_changes)
             /\ ("Restock" \in ReasonsOf(k)) <=> InList(k, diffs.restocks)
             /\ ("StockIncrease" \in ReasonsOf(k)) <=> InList(k, diffs.stock_increases)
             /\ status = "done" /\ ReasonsOf(k) # {} => MessagesFor(k) # {}

C6_Witness ==
    /\ status = "done"
    /\ env.baseline_protect
    /\ Cardinality(DOMAIN result) = 30
    /\ Cardinality(DOMAIN result \ DOMAIN old) = 25
    /\ \A k \in DOMAIN result \ DOMAIN old : k \notin DOMAIN reasons_map
    /\ Len(sent) = 3

InStock(r) == "in_stock" \in DOMAIN r /\ r.in_stock

(* C7: the diff lists key k as a restock exactly when k is in both         *)
(* snapshots, was out of stock and is in stock now.                        *)
C7_RestockDirection ==
    Processed =>
       \A k \in AllKeys :
          InList(k, diffs.restocks) <=>
             /\ k \in DOMAIN old
             /\ k \in DOMAIN result
             /\ ~ InStock(old[k])
             /\ InStock(result[k])

C7_Witness ==
    /\ Processed
    /\ diffs.restocks = <<1>>
    /\ \E k \in DOMAIN old \cap DOMAIN result : InStock(old[k]) /\ ~ InStock(result[k])

HasPrice(r) == "price" \in DOMAIN r /\ r.price.t = "num"

(* C8: the diff lists key k as a price change exactly when k is in both    *)
(* snapshots, both prices are numbers and they differ by a cent or more.   *)
C8_PriceThreshold ==
    Processed =>
       \A k \in AllKeys :
          InList(k, diffs.price_changes) <=>
             /\ k \in DOMAIN old
             /\ k \in DOMAIN result
             /\ HasPrice(old[k])
             /\ HasPrice(result[k])
             /\ old[k].price.c # result[k].price.c

(* C9: the diff of a snapshot with itself has no event of any kind. *)
C9_DiffIdempotent ==
    Processed /\ old = result =>
       /\ diffs.new_items = <<>>
       /\ diffs.price_changes = <<>>
       /\ diffs.restocks = <<>>
       /\ diffs.stock_increases = <<>>

C9_Witness ==
    /\ Processed
    /\ old = result
    /\ \E k \in DOMAIN old : old[k] = Placeholder
    /\ \E k \in DOMAIN old : InStock(old[k]) /\ old[k].price = NaN

\* the snapshot file is as main found it: jdump has not renamed yet
BeforeRename == pc \notin {"load", "notify"}

(* C10: jload never raises; old is the map of a snapshot file that parses  *)
(* to one and the empty map otherwise; with an empty old every scraped     *)
(* product is a new item, and the new snapshot is saved.                   *)
C10_LoadNeverFatal ==
    /\ status = "crashed" => pc # "load"
    /\ BeforeRename =>
          old = IF fs[SNAPSHOT_PATH].kind = "doc" THEN fs[SNAPSHOT_PATH].data
                ELSE EmptyMap
    /\ Processed /\ old = EmptyMap => diffs.new_items = Sorted(DOMAIN result)
    /\ pc = "notify" /\ old = EmptyMap => fs[SNAPSHOT_PATH] = json_dump(result)

C10_Witness ==
    /\ status = "running"
    /\ pc = "jdump_move"
    /\ fs[SNAPSHOT_PATH] = Garbage
    /\ old = EmptyMap
    /\ Len(diffs.new_items) = 2
    /\ Len(changed_keys) = 2

-----------------------------------------------------------------------------
(* C11 *)

RECURSIVE Split(_)
\* the segments of a path between its slashes
Split(s) ==
    LET c == Find(s, "/")
    IN  IF c = 0 THEN <<s>>
        ELSE <<SubSeq(s, 1, c - 1)>> \o Split(SubSeq(s, c + 1, Len(s)))

\* the part of a URL between the host and the first "?" or "#"
PathOf(u) ==
    LET ends == {i \in 2 .. Len(u) : u[i] \in {"?", "#"}}
    IN  IF ends = {} THEN Tail(u) ELSE SubSeq(u, 2, Min(ends) - 1)

\* the keys the path allows: the lowercase segment before a "p" segment,
\* and without such a marker the last non-empty segment
ClaimedKeys(path) ==
    LET segs == Split(path)
        markers == {i \in 2 .. Len(segs) :
                       lower(segs[i]) = <<"p">> /\ Len(segs[i - 1]) > 0}
        filled == {i \in 1 .. Len(segs) : Len(segs[i]) > 0}
    IN  IF markers # {} THEN {lower(segs[i - 1]) : i \in markers}
        ELSE IF filled # {} THEN {lower(segs[Max(filled)])}
        ELSE {}

\* C11: URLs with the same path that differ only in query string or fragment
\* get one and the same key, and that key is the lowercase path segment
\* before the "/p" marker, or without a marker the last non-empty segment.
C11_KeyFromPathOnly ==
    pc = "failed_href" =>
       /\ Cardinality(DOMAIN result) <= 1
       /\ \A u \in seen_urls :
             ClaimedKeys(PathOf(u)) # {} =>
                DOMAIN result \subseteq ClaimedKeys(PathOf(u))

\* the same, for the URLs whose path has a non-empty segment
C11_KeyOfNamedPath ==
    pc = "failed_href" =>
       \A u \in seen_urls :
          ClaimedKeys(PathOf(u)) # {} =>
             /\ Cardinality(DOMAIN result) = 1
             /\ DOMAIN result \subseteq ClaimedKeys(PathOf(u))

-----------------------------------------------------------------------------
(* C12 *)

\* the retry loop of the last href visited is over
HrefSettled == Running("links") /\ seen_urls # {}

\* that loop stored no record: no attempt was ok, or the page had no title
NoRecordYielded == ~ ok \/ title = NoTitle

\* C12: a product page is attempted at most two times; when no attempt
\* yields a record (timeout, error, no title) the product is in the state
\* map of the run under its stable key all the same; and a product of the
\* prior snapshot is never among the new items.
C12_FailedFetchRecorded ==
    /\ attempt <= MaxAttempts
    /\ (HrefSettled /\ NoRecordYielded) => KeyOf(final_url) \in DOMAIN result
    /\ \A k \in DOMAIN old : ~ InList(k, diffs.new_items)

\* the same with the keyword filter unset
C12_RecordedWithoutKeyword ==
    ~ env.keyword => C12_FailedFetchRecorded

\* a placeholder has been stored after two failed attempts
C12_PlaceholderStored ==
    /\ HrefSettled
    /\ ~ ok
    /\ attempt = MaxAttempts
    /\ KeyOf(final_url) \in DOMAIN result
    /\ result[KeyOf(final_url)] = Placeholder

====
